---- MODULE Spec2Model ----
(***************************************************************************)
(* CPU scheduling simulator: the Process record, the Scheduler base class  *)
(* and the four strategies (Round Robin, Priority, Multilevel Queue,       *)
(* Multilevel Feedback Queue).  A state is one scheduler object with the   *)
(* processes added to it; one action is one iteration of the strategy's    *)
(* schedule() loop.                                                        *)
(***************************************************************************)
EXTENDS Integers, Sequences, FiniteSets, TLC

VARIABLES
    strategy,               \* dynamic class of the scheduler object
    contextSwitchOverhead,  \* Scheduler::contextSwitchOverhead
    timeQuantum,            \* RoundRobinScheduler::timeQuantum
    preemptive,             \* PriorityScheduler::preemptive
    agingEnabled,           \* PriorityScheduler / MLFQ ::agingEnabled
    agingInterval,          \* PriorityScheduler::agingInterval
    queueConfigs,           \* MultilevelQueueScheduler::queueConfigs
    numQueues,              \* MultilevelFeedbackQueueScheduler::numQueues
    timeQuantums,           \* MultilevelFeedbackQueueScheduler::timeQuantums
    agingThreshold,         \* MultilevelFeedbackQueueScheduler::agingThreshold
    processes,              \* Scheduler::processes (vector, in addProcess order)
    currentTime,            \* Scheduler::currentTime
    totalContextSwitches,   \* Scheduler::totalContextSwitches
    currentProcess,         \* Scheduler::currentProcess
    runningProcess,         \* local of PriorityScheduler::schedule, live across iterations
    readyQueue,             \* RoundRobinScheduler / PriorityScheduler ::readyQueue
    queues,                 \* MLQ (by threshold) / MLFQ (by level) ::queues
    processQueueLevel,      \* MultilevelFeedbackQueueScheduler::processQueueLevel
    timeInQueue,            \* MultilevelFeedbackQueueScheduler::timeInQueue
    ganttChart,             \* the strategy's ganttChart
    pc,                     \* "init" before schedule(), "loop" inside it, "done" after
    added,                  \* history: the arguments each process was constructed with
    runCount,               \* history: the number of the schedule() call, from 1
    firstRun,               \* history: the trace and processes the first run ended with
    call,                   \* history: the last Process::execute call on a lone process
    enqueues                \* history: the <<process, queue>> pushes of this MLQ run

confVars == <<strategy, contextSwitchOverhead, timeQuantum, preemptive, agingEnabled,
              agingInterval, queueConfigs, numQueues, timeQuantums, agingThreshold>>

vars == <<strategy, contextSwitchOverhead, timeQuantum, preemptive, agingEnabled,
          agingInterval, queueConfigs, numQueues, timeQuantums, agingThreshold,
          processes, currentTime, totalContextSwitches, currentProcess,
          runningProcess, readyQueue, queues, processQueueLevel, timeInQueue,
          ganttChart, pc, added, runCount, firstRun, call, enqueues>>

histVars == <<added, runCount, firstRun, call, enqueues>>

runVars == <<added, runCount, firstRun, call>>

----------------------------------------------------------------------------
(* Bounds of the explored workloads and configurations. *)

MaxProcs == 2
MaxArrival == 2
MaxBurst == 3
MaxPriority == 1
MaxQuantum == 2
MaxOverhead == 1
MaxAgingInterval == 2
MaxQueues == 3
MaxRuns == 2
MaxUnits == 4
MaxTrioArrival == 1
MaxBadQuantum == 1
MaxGrowth == 2

----------------------------------------------------------------------------
(* Process *)

\* nullptr of a shared_ptr<Process>; processes are referred to by their index
NoProcess == 0

\* no Process::execute call made yet on a lone process
NoCall == [units |-> 0, before |-> 0, returned |-> 0, total |-> 0]

\* the "IDLE" label of a Gantt chart; a process is labelled by its index
IDLE == 0

Min(a, b) == IF a <= b THEN a ELSE b

\* a function over 1..n as the tuple it is (a std::vector indexed from 1)
Vector(f) == f \o <<>>

\* a function over keys as the finite map it is (a std::map)
Map(f) == f @@ <<>>

Process(arrivalTime, burstTime, priority) ==
    [arrivalTime |-> arrivalTime, burstTime |-> burstTime,
     remainingTime |-> burstTime, priority |-> priority, state |-> "NEW",
     startTime |-> -1, completionTime |-> -1, waitingTime |-> 0,
     turnaroundTime |-> 0, responseTime |-> 0,
     lastScheduledTime |-> arrivalTime, firstSchedule |-> TRUE]

\* the value Process::execute returns
ExecutionTime(p, quantum) == Min(quantum, p.remainingTime)

\* a faulty variant: the whole request is subtracted, not what was consumed
ExecuteUnclamped(p, quantum) ==
    [p EXCEPT !.remainingTime = @ - quantum]

\* the process after Process::execute
Execute(p, quantum) ==
    [p EXCEPT !.remainingTime = @ - ExecutionTime(p, quantum)]

isComplete(p) == p.remainingTime = 0

\* remainingTime is an int: a run that makes it grow is followed until it has
\* grown by MaxGrowth
WithinGrowth(ps) ==
    \A i \in DOMAIN ps : ps[i].remainingTime <= ps[i].burstTime + MaxGrowth

calculateMetrics(p) ==
    [p EXCEPT !.turnaroundTime = p.completionTime - p.arrivalTime,
              !.responseTime = p.startTime - p.arrivalTime]

\* Process::reset: every member but the identity, the arrival, the burst and
\* the priority is set back
reset(p) ==
    [p EXCEPT !.remainingTime = p.burstTime, !.state = "NEW",
              !.startTime = -1, !.completionTime = -1, !.waitingTime = 0,
              !.turnaroundTime = 0, !.responseTime = 0,
              !.lastScheduledTime = p.arrivalTime, !.firstSchedule = TRUE]

\* setCompletionTime(t); calculateMetrics(); setState(TERMINATED)
Terminate(p, t) ==
    [calculateMetrics([p EXCEPT !.completionTime = t]) EXCEPT !.state = "TERMINATED"]

----------------------------------------------------------------------------
(* Scheduler *)

\* a faulty variant: the loop meets the processes from the last to the first
InReverseOrder(S) ==
    [k \in 1..Cardinality(S) |->
        CHOOSE x \in S : Cardinality({y \in S : y > x}) = k - 1]

\* the elements of a set of indices in increasing order: the order in which a
\* loop over the process vector meets them
InOrder(S) ==
    [k \in 1..Cardinality(S) |->
        CHOOSE x \in S : Cardinality({y \in S : y < x}) = k - 1]

InQueue(q, i) == \E k \in DOMAIN q : q[k] = i

Labels(label, n) == [k \in 1..n |-> label]

admitArrivingProcesses(ps, t) ==
    Vector([i \in DOMAIN ps |->
        IF ps[i].state = "NEW" /\ ps[i].arrivalTime <= t
        THEN [ps[i] EXCEPT !.state = "READY"]
        ELSE ps[i]])

updateWaitingTimes(ps, elapsedTime) ==
    Vector([i \in DOMAIN ps |->
        IF ps[i].state = "READY"
        THEN [ps[i] EXCEPT !.waitingTime = @ + elapsedTime]
        ELSE ps[i]])

\* the loop "for p in processes: if p != process && READY: addWaitingTime(t)"
addWaitingToOthers(ps, process, t) ==
    Vector([i \in DOMAIN ps |->
        IF i # process /\ ps[i].state = "READY"
        THEN [ps[i] EXCEPT !.waitingTime = @ + t]
        ELSE ps[i]])

\* a context switch is counted (and costs time) only between two distinct processes
SwitchCounted(from, to) == from # to /\ from # NoProcess /\ to # NoProcess

contextSwitch(ps, t, switches, from, to) ==
    LET counted == SwitchCounted(from, to)
        t1 == IF counted THEN t + contextSwitchOverhead ELSE t
        ps1 == IF from # NoProcess /\ ps[from].state = "RUNNING"
               THEN [ps EXCEPT ![from].state = "READY"]
               ELSE ps
        ps2 == IF to # NoProcess
               THEN [ps1 EXCEPT ![to].state = "RUNNING",
                                ![to].startTime =
                                    IF ps1[to].firstSchedule THEN t1 ELSE @,
                                ![to].firstSchedule = FALSE]
               ELSE ps1
    IN [processes |-> ps2, currentTime |-> t1,
        totalContextSwitches |-> IF counted THEN switches + 1 ELSE switches,
        currentProcess |-> to]

\* a faulty variant: the scan for pending arrivals looks at READY instead of NEW
HasNewScansReady(ps) == \E i \in DOMAIN ps : ps[i].state = "READY"

HasNew(ps) == \E i \in DOMAIN ps : ps[i].state = "NEW"

\* the scan for the earliest arrival among the NEW processes
NextArrival(ps) ==
    CHOOSE a \in {ps[i].arrivalTime : i \in {j \in DOMAIN ps : ps[j].state = "NEW"}} :
        \A i \in DOMAIN ps : ps[i].state = "NEW" => a <= ps[i].arrivalTime

EarliestArrival(ps) ==
    CHOOSE a \in {ps[i].arrivalTime : i \in DOMAIN ps} :
        \A i \in DOMAIN ps : a <= ps[i].arrivalTime

AllTerminated(ps) == \A i \in DOMAIN ps : ps[i].state = "TERMINATED"

\* the exit test at the end of a loop iteration
AfterIteration(ps) == IF AllTerminated(ps) THEN "done" ELSE "loop"

setLastScheduledTime(ps, S, t) ==
    Vector([i \in DOMAIN ps |->
        IF i \in S THEN [ps[i] EXCEPT !.lastScheduledTime = t] ELSE ps[i]])

----------------------------------------------------------------------------
(* RoundRobinScheduler::schedule *)

\* a faulty variant: the enqueue loop does not look whether the process is
\* already in the queue
RRNewlyReadyUnscanned(ps, q, t, except) ==
    {i \in DOMAIN ps : /\ ps[i].state = "READY"
                       /\ i # except
                       /\ ps[i].lastScheduledTime < t}

\* the processes the "add newly ready processes" loop pushes, all but `except`
RRNewlyReady(ps, q, t, except) ==
    {i \in DOMAIN ps : /\ ps[i].state = "READY"
                       /\ i # except
                       /\ ps[i].lastScheduledTime < t
                       /\ ~InQueue(q, i)}

\* the top of an iteration: admission, then the enqueue loop
RRTop ==
    LET ps1 == admitArrivingProcesses(processes, currentTime)
        new == RRNewlyReady(ps1, readyQueue, currentTime, NoProcess)
    IN [processes |-> setLastScheduledTime(ps1, new, currentTime),
        readyQueue |-> readyQueue \o InOrder(new)]

\* the branch "if (readyQueue.empty())" with an arrival still to come
RRIdle ==
    /\ pc = "loop" /\ strategy = "RR"
    /\ \E top \in {RRTop} :
        /\ top.readyQueue = <<>>
        /\ HasNew(top.processes)
        /\ \E nextArrival \in {NextArrival(top.processes)} :
            /\ processes' = updateWaitingTimes(top.processes, nextArrival - currentTime)
            /\ currentTime' = nextArrival
        /\ ganttChart' = Append(ganttChart, IDLE)
        /\ readyQueue' = top.readyQueue
    /\ UNCHANGED <<confVars, histVars, totalContextSwitches, currentProcess, runningProcess,
                   queues, processQueueLevel, timeInQueue, pc>>

\* the branch "if (readyQueue.empty())" with no arrival left: the loop ends
RRFinish ==
    /\ pc = "loop" /\ strategy = "RR"
    /\ \E top \in {RRTop} :
        /\ top.readyQueue = <<>>
        /\ ~HasNew(top.processes)
        /\ processes' = top.processes
        /\ readyQueue' = top.readyQueue
    /\ pc' = "done"
    /\ UNCHANGED <<confVars, histVars, currentTime, totalContextSwitches, currentProcess,
                   runningProcess, queues, processQueueLevel, timeInQueue, ganttChart>>

\* the rest of an iteration whose queue is not empty: one slice of the head
RRSlice(top) ==
    LET process == Head(top.readyQueue)
        q1 == Tail(top.readyQueue)
        cs == contextSwitch(top.processes, currentTime, totalContextSwitches,
                            currentProcess, process)
        executionTime == ExecutionTime(cs.processes[process], timeQuantum)
        ps1 == [cs.processes EXCEPT ![process] = Execute(@, timeQuantum)]
        t1 == cs.currentTime + executionTime
        ps2 == addWaitingToOthers(ps1, process, executionTime)
        complete == isComplete(ps2[process])
        ps3 == admitArrivingProcesses([ps2 EXCEPT ![process].state = "READY"], t1)
        new == RRNewlyReady(ps3, q1, t1, process)
        final == IF complete
                 THEN [ps2 EXCEPT ![process] = Terminate(@, t1)]
                 ELSE setLastScheduledTime(ps3, new \cup {process}, t1)
    IN [processes |-> final,
        readyQueue |-> IF complete THEN q1 ELSE q1 \o InOrder(new) \o <<process>>,
        ganttChart |-> ganttChart \o Labels(process, executionTime),
        currentTime |-> t1,
        totalContextSwitches |-> cs.totalContextSwitches,
        pc |-> AfterIteration(final)]

RRDispatch ==
    /\ pc = "loop" /\ strategy = "RR"
    /\ \E top \in {RRTop} :
        /\ top.readyQueue # <<>>
        /\ \E step \in {RRSlice(top)} :
            /\ WithinGrowth(step.processes)
            /\ processes' = step.processes
            /\ readyQueue' = step.readyQueue
            /\ ganttChart' = step.ganttChart
            /\ currentTime' = step.currentTime
            /\ totalContextSwitches' = step.totalContextSwitches
            /\ pc' = step.pc
    /\ currentProcess' = NoProcess
    /\ UNCHANGED <<confVars, histVars, runningProcess, queues, processQueueLevel, timeInQueue>>

----------------------------------------------------------------------------
(* PriorityScheduler *)

\* a faulty variant: aging does not stop at priority 0
applyAgingUnfloored(ps, t) ==
    IF ~agingEnabled THEN ps
    ELSE Vector([i \in DOMAIN ps |->
            IF /\ ps[i].state = "READY"
               /\ t - ps[i].lastScheduledTime >= agingInterval
            THEN [ps[i] EXCEPT !.priority = @ - 1]
            ELSE ps[i]])

\* PriorityScheduler::applyAging
applyAging(ps, t) ==
    IF ~agingEnabled THEN ps
    ELSE Vector([i \in DOMAIN ps |->
            IF /\ ps[i].state = "READY"
               /\ t - ps[i].lastScheduledTime >= agingInterval
               /\ ps[i].priority > 0
            THEN [ps[i] EXCEPT !.priority = @ - 1]
            ELSE ps[i]])

\* a faulty variant: the larger priority value is nearer the top
PriorityComparatorLargestFirst(ps, a, b) ==
    IF ps[a].priority # ps[b].priority
    THEN ps[a].priority < ps[b].priority
    ELSE ps[a].arrivalTime > ps[b].arrivalTime

\* PriorityComparator(a, b): a is ordered below b, so b is nearer the top
PriorityComparator(ps, a, b) ==
    IF ps[a].priority # ps[b].priority
    THEN ps[a].priority > ps[b].priority
    ELSE ps[a].arrivalTime > ps[b].arrivalTime

Ready(ps) == {i \in DOMAIN ps : ps[i].state = "READY"}

\* what readyQueue.top() can return: an element no other element is ordered
\* above (which of several equal ones is the heap's choice)
Top(ps, S) == {a \in S : \A b \in S : ~PriorityComparator(ps, a, b)}

\* the top of an iteration: admission, aging on the interval, the rebuilt queue
PrioTop ==
    LET ps1 == admitArrivingProcesses(processes, currentTime)
    IN IF currentTime % agingInterval = 0 THEN applyAging(ps1, currentTime) ELSE ps1

\* the branch "if (readyQueue.empty())": the running process of a non-preemptive
\* run goes on for one unit, or the clock jumps to the next arrival, or the loop ends
PrioEmptyStep(ps) ==
    IF /\ runningProcess # NoProcess
       /\ ~isComplete(ps[runningProcess])
       /\ ~preemptive
    THEN LET ps1 == [ps EXCEPT ![runningProcess] = Execute(@, 1)]
             complete == isComplete(ps1[runningProcess])
         IN [processes |-> IF complete
                           THEN [ps1 EXCEPT ![runningProcess] =
                                                Terminate(@, currentTime + 1)]
                           ELSE ps1,
             ganttChart |-> Append(ganttChart, runningProcess),
             currentTime |-> currentTime + 1,
             runningProcess |-> IF complete THEN NoProcess ELSE runningProcess,
             pc |-> "loop"]
    ELSE IF HasNew(ps)
    THEN [processes |-> ps,
          ganttChart |-> Append(ganttChart, IDLE),
          currentTime |-> NextArrival(ps),
          runningProcess |-> runningProcess,
          pc |-> "loop"]
    ELSE [processes |-> ps, ganttChart |-> ganttChart, currentTime |-> currentTime,
          runningProcess |-> runningProcess, pc |-> "done"]

PrioQueueEmpty ==
    /\ pc = "loop" /\ strategy = "PRIO"
    /\ \E ps \in {PrioTop} :
        /\ Ready(ps) = {}
        /\ \E step \in {PrioEmptyStep(ps)} :
            /\ processes' = step.processes
            /\ ganttChart' = step.ganttChart
            /\ currentTime' = step.currentTime
            /\ runningProcess' = step.runningProcess
            /\ pc' = step.pc
    /\ readyQueue' = <<>>
    /\ UNCHANGED <<confVars, histVars, totalContextSwitches, currentProcess, queues,
                   processQueueLevel, timeInQueue>>

\* the preemptive branch: preempt or start, then one time unit
PrioUnit(ps, nextProcess) ==
    LET r == runningProcess
        preempt == /\ r # NoProcess /\ r # nextProcess
                   /\ ps[nextProcess].priority < ps[r].priority
        fresh == r = NoProcess
        cs == IF preempt
              THEN contextSwitch([ps EXCEPT ![r].state = "READY"], currentTime,
                                 totalContextSwitches, r, nextProcess)
              ELSE IF fresh
              THEN contextSwitch(ps, currentTime, totalContextSwitches,
                                 NoProcess, nextProcess)
              ELSE [processes |-> ps, currentTime |-> currentTime,
                    totalContextSwitches |-> totalContextSwitches,
                    currentProcess |-> currentProcess]
        run == IF preempt \/ fresh THEN nextProcess ELSE r
        ps1 == [cs.processes EXCEPT ![run] = Execute(@, 1)]
        ps2 == addWaitingToOthers(ps1, run, 1)
        t1 == cs.currentTime + 1
        complete == isComplete(ps2[run])
        final == IF complete THEN [ps2 EXCEPT ![run] = Terminate(@, t1)] ELSE ps2
    IN [processes |-> final,
        readyQueue |-> InOrder(Ready(ps) \ {nextProcess}),
        ganttChart |-> Append(ganttChart, run),
        currentTime |-> t1,
        totalContextSwitches |-> cs.totalContextSwitches,
        currentProcess |-> cs.currentProcess,
        runningProcess |-> IF complete THEN NoProcess ELSE run,
        pc |-> AfterIteration(final)]

\* a faulty variant: the non-preemptive branch runs one unit and can be preempted
PrioBurstOneUnit(ps, nextProcess) == PrioUnit(ps, nextProcess)

\* the non-preemptive branch: the whole remaining burst
PrioBurst(ps, nextProcess) ==
    LET cs == contextSwitch(ps, currentTime, totalContextSwitches,
                            runningProcess, nextProcess)
        burstTime == cs.processes[nextProcess].remainingTime
        ps1 == [cs.processes EXCEPT ![nextProcess] = Execute(@, burstTime)]
        ps2 == addWaitingToOthers(ps1, nextProcess, burstTime)
        t1 == cs.currentTime + burstTime
        final == [ps2 EXCEPT ![nextProcess] = Terminate(@, t1)]
    IN [processes |-> final,
        readyQueue |-> InOrder(Ready(ps) \ {nextProcess}),
        ganttChart |-> ganttChart \o Labels(nextProcess, burstTime),
        currentTime |-> t1,
        totalContextSwitches |-> cs.totalContextSwitches,
        currentProcess |-> cs.currentProcess,
        runningProcess |-> NoProcess,
        pc |-> AfterIteration(final)]

PrioDispatchPreemptive ==
    /\ pc = "loop" /\ strategy = "PRIO"
    /\ preemptive
    /\ \E ps \in {PrioTop} :
        /\ Ready(ps) # {}
        /\ \E nextProcess \in Top(ps, Ready(ps)) :
           \E step \in {PrioUnit(ps, nextProcess)} :
            /\ processes' = step.processes
            /\ readyQueue' = step.readyQueue
            /\ ganttChart' = step.ganttChart
            /\ currentTime' = step.currentTime
            /\ totalContextSwitches' = step.totalContextSwitches
            /\ currentProcess' = step.currentProcess
            /\ runningProcess' = step.runningProcess
            /\ pc' = step.pc
    /\ UNCHANGED <<confVars, histVars, queues, processQueueLevel, timeInQueue>>

PrioDispatchNonPreemptive ==
    /\ pc = "loop" /\ strategy = "PRIO"
    /\ ~preemptive
    /\ \E ps \in {PrioTop} :
        /\ Ready(ps) # {}
        /\ \E nextProcess \in Top(ps, Ready(ps)) :
           \E step \in {PrioBurst(ps, nextProcess)} :
            /\ processes' = step.processes
            /\ readyQueue' = step.readyQueue
            /\ ganttChart' = step.ganttChart
            /\ currentTime' = step.currentTime
            /\ totalContextSwitches' = step.totalContextSwitches
            /\ currentProcess' = step.currentProcess
            /\ runningProcess' = step.runningProcess
            /\ pc' = step.pc
    /\ UNCHANGED <<confVars, histVars, queues, processQueueLevel, timeInQueue>>

----------------------------------------------------------------------------
(* MultilevelQueueScheduler *)

NoQueue == -1

SetMin(S) == CHOOSE x \in S : \A y \in S : x <= y
SetMax(S) == CHOOSE x \in S : \A y \in S : x >= y

\* a faulty variant: the last queue whose threshold fits, not the first
TargetQueueLargestFit(priority) ==
    LET fits == {k \in DOMAIN queueConfigs : priority <= k}
    IN IF fits # {} THEN SetMax(fits)
       ELSE IF DOMAIN queueConfigs # {} THEN SetMax(DOMAIN queueConfigs)
       ELSE NoQueue

\* the queue a process of the given priority is pushed into
TargetQueue(priority) ==
    LET fits == {k \in DOMAIN queueConfigs : priority <= k}
    IN IF fits # {} THEN SetMin(fits)
       ELSE IF DOMAIN queueConfigs # {} THEN SetMax(DOMAIN queueConfigs)
       ELSE NoQueue

\* the processes the enqueue loop pushes, all but `except`
MLQNewlyReady(ps, qs, t, except) ==
    {i \in DOMAIN ps : /\ ps[i].state = "READY"
                       /\ i # except
                       /\ ps[i].lastScheduledTime < t
                       /\ TargetQueue(ps[i].priority) # NoQueue
                       /\ ~InQueue(qs[TargetQueue(ps[i].priority)], i)}

\* the pushes that lead from the queues `before` to the queues `after`
Pushed(before, after) ==
    {e \in (DOMAIN processes) \X (DOMAIN after) :
        InQueue(after[e[2]], e[1]) /\ ~InQueue(before[e[2]], e[1])}

MLQPush(ps, qs, new) ==
    Map([k \in DOMAIN qs |->
            qs[k] \o InOrder({i \in new : TargetQueue(ps[i].priority) = k})])

\* MultilevelQueueScheduler::getHighestPriorityQueue
MLQHighestPriorityQueue(qs) ==
    LET busy == {k \in DOMAIN queueConfigs : qs[k] # <<>>}
    IN IF busy # {} THEN SetMin(busy) ELSE NoQueue

\* the top of an iteration: admission, then the enqueue loop
MLQTop ==
    LET ps1 == admitArrivingProcesses(processes, currentTime)
        new == MLQNewlyReady(ps1, queues, currentTime, NoProcess)
        qs1 == MLQPush(ps1, queues, new)
    IN [processes |-> setLastScheduledTime(ps1, new, currentTime),
        queues |-> qs1,
        enqueues |-> Pushed(queues, qs1)]

\* the branch "if (queueToSchedule == -1)" with an arrival still to come
MLQIdle ==
    /\ pc = "loop" /\ strategy = "MLQ"
    /\ \E top \in {MLQTop} :
        /\ MLQHighestPriorityQueue(top.queues) = NoQueue
        /\ HasNew(top.processes)
        /\ currentTime' = NextArrival(top.processes)
        /\ processes' = top.processes
        /\ queues' = top.queues
        /\ enqueues' = enqueues \cup top.enqueues
    /\ ganttChart' = Append(ganttChart, IDLE)
    /\ UNCHANGED <<confVars, runVars, totalContextSwitches, currentProcess, runningProcess,
                   readyQueue, processQueueLevel, timeInQueue, pc>>

\* the branch "if (queueToSchedule == -1)" with no arrival left: the loop ends
MLQFinish ==
    /\ pc = "loop" /\ strategy = "MLQ"
    /\ \E top \in {MLQTop} :
        /\ MLQHighestPriorityQueue(top.queues) = NoQueue
        /\ ~HasNew(top.processes)
        /\ processes' = top.processes
        /\ queues' = top.queues
        /\ enqueues' = enqueues \cup top.enqueues
    /\ pc' = "done"
    /\ UNCHANGED <<confVars, runVars, currentTime, totalContextSwitches, currentProcess,
                   runningProcess, readyQueue, processQueueLevel, timeInQueue,
                   ganttChart>>

\* the time scheduleFromQueue runs the process for
scheduleFromQueue(queuePriority, p) ==
    IF queueConfigs[queuePriority].algorithm = "FCFS"
    THEN ExecutionTime(p, p.remainingTime)
    ELSE ExecutionTime(p, queueConfigs[queuePriority].timeQuantum)

\* a faulty variant: the process is put back into the last queue
MLQRequeueLowest(qs, queueToSchedule, process) ==
    [qs EXCEPT ![SetMax(DOMAIN qs)] = Append(@, process)]

\* "queues[queueToSchedule].push(process)": back into the queue it came from
MLQRequeue(qs, queueToSchedule, process) ==
    [qs EXCEPT ![queueToSchedule] = Append(@, process)]

\* the rest of an iteration with a queue to serve: one dispatch of its head
MLQSlice(top) ==
    LET queueToSchedule == MLQHighestPriorityQueue(top.queues)
        process == Head(top.queues[queueToSchedule])
        qs1 == [top.queues EXCEPT ![queueToSchedule] = Tail(@)]
        cs == contextSwitch(top.processes, currentTime, totalContextSwitches,
                            currentProcess, process)
        executionTime == scheduleFromQueue(queueToSchedule, cs.processes[process])
        ps1 == [cs.processes EXCEPT ![process] = Execute(@, executionTime)]
        ps2 == addWaitingToOthers(ps1, process, executionTime)
        t1 == cs.currentTime + executionTime
        complete == isComplete(ps2[process])
        requeue == /\ ~complete
                   /\ queueConfigs[queueToSchedule].algorithm = "ROUND_ROBIN"
        ps3 == admitArrivingProcesses([ps2 EXCEPT ![process].state = "READY"], t1)
        new == MLQNewlyReady(ps3, qs1, t1, process)
        final == IF complete
                 THEN [ps2 EXCEPT ![process] = Terminate(@, t1)]
                 ELSE IF requeue
                 THEN setLastScheduledTime(ps3, new \cup {process}, t1)
                 ELSE ps2
        qs2 == IF requeue
               THEN MLQRequeue(MLQPush(ps3, qs1, new), queueToSchedule, process)
               ELSE qs1
    IN [processes |-> final,
        queues |-> qs2,
        enqueues |-> top.enqueues \cup Pushed(qs1, qs2),
        ganttChart |-> ganttChart \o Labels(process, executionTime),
        currentTime |-> t1,
        totalContextSwitches |-> cs.totalContextSwitches,
        pc |-> AfterIteration(final)]

MLQDispatch ==
    /\ pc = "loop" /\ strategy = "MLQ"
    /\ \E top \in {MLQTop} :
        /\ MLQHighestPriorityQueue(top.queues) # NoQueue
        /\ \E step \in {MLQSlice(top)} :
            /\ WithinGrowth(step.processes)
            /\ processes' = step.processes
            /\ queues' = step.queues
            /\ enqueues' = enqueues \cup step.enqueues
            /\ ganttChart' = step.ganttChart
            /\ currentTime' = step.currentTime
            /\ totalContextSwitches' = step.totalContextSwitches
            /\ pc' = step.pc
    /\ currentProcess' = NoProcess
    /\ UNCHANGED <<confVars, runVars, runningProcess, readyQueue, processQueueLevel,
                   timeInQueue>>

----------------------------------------------------------------------------
(* MultilevelFeedbackQueueScheduler *)

\* the quanta the constructor sets
DefaultTimeQuantums(n) == [i \in 0..(n - 1) |-> 2 * (i + 1)]

\* the level map after demoteProcess / the counter map after it
demoteLevel(levels, i) ==
    IF levels[i] < numQueues - 1 THEN [levels EXCEPT ![i] = @ + 1] ELSE levels

demoteTime(levels, times, i) ==
    IF levels[i] < numQueues - 1 THEN [times EXCEPT ![i] = 0] ELSE times

\* applyAging meets the processes one by one; each READY one has its counter
\* incremented and, at the threshold, is promoted (promoteProcess)
MLFQAged(ps, times, i) ==
    ps[i].state = "READY" /\ times[i] + 1 >= agingThreshold

MLFQAgingLevels(ps, levels, times) ==
    IF ~agingEnabled THEN levels
    ELSE Vector([i \in DOMAIN levels |->
            IF MLFQAged(ps, times, i) /\ levels[i] > 0
            THEN levels[i] - 1 ELSE levels[i]])

MLFQAgingTimes(ps, levels, times) ==
    IF ~agingEnabled THEN times
    ELSE Vector([i \in DOMAIN times |->
            IF ps[i].state # "READY" THEN times[i]
            ELSE IF MLFQAged(ps, times, i) /\ levels[i] > 0 THEN 0
            ELSE times[i] + 1])

MLFQNewlyReady(ps, qs, levels, t, except) ==
    {i \in DOMAIN ps : /\ ps[i].state = "READY"
                       /\ i # except
                       /\ ps[i].lastScheduledTime < t
                       /\ ~InQueue(qs[levels[i]], i)}

MLFQPush(qs, levels, new) ==
    Map([k \in DOMAIN qs |-> qs[k] \o InOrder({i \in new : levels[i] = k})])

\* MultilevelFeedbackQueueScheduler::getHighestPriorityQueue
MLFQHighestPriorityQueue(qs) ==
    LET busy == {k \in 0..(numQueues - 1) : qs[k] # <<>>}
    IN IF busy # {} THEN SetMin(busy) ELSE NoQueue

\* the top of an iteration: admission, aging on the interval, the enqueue loop
MLFQTop ==
    LET ps1 == admitArrivingProcesses(processes, currentTime)
        aging == currentTime % agingThreshold = 0
        levels == IF aging THEN MLFQAgingLevels(ps1, processQueueLevel, timeInQueue)
                  ELSE processQueueLevel
        times == IF aging THEN MLFQAgingTimes(ps1, processQueueLevel, timeInQueue)
                 ELSE timeInQueue
        new == MLFQNewlyReady(ps1, queues, levels, currentTime, NoProcess)
    IN [processes |-> setLastScheduledTime(ps1, new, currentTime),
        queues |-> MLFQPush(queues, levels, new),
        processQueueLevel |-> levels,
        timeInQueue |-> times]

\* the branch "if (queueToSchedule == -1)" with an arrival still to come
MLFQIdle ==
    /\ pc = "loop" /\ strategy = "MLFQ"
    /\ \E top \in {MLFQTop} :
        /\ MLFQHighestPriorityQueue(top.queues) = NoQueue
        /\ HasNew(top.processes)
        /\ currentTime' = NextArrival(top.processes)
        /\ processes' = top.processes
        /\ queues' = top.queues
        /\ processQueueLevel' = top.processQueueLevel
        /\ timeInQueue' = top.timeInQueue
    /\ ganttChart' = Append(ganttChart, IDLE)
    /\ UNCHANGED <<confVars, histVars, totalContextSwitches, currentProcess, runningProcess,
                   readyQueue, pc>>

\* the branch "if (queueToSchedule == -1)" with no arrival left: the loop ends
MLFQFinish ==
    /\ pc = "loop" /\ strategy = "MLFQ"
    /\ \E top \in {MLFQTop} :
        /\ MLFQHighestPriorityQueue(top.queues) = NoQueue
        /\ ~HasNew(top.processes)
        /\ processes' = top.processes
        /\ queues' = top.queues
        /\ processQueueLevel' = top.processQueueLevel
        /\ timeInQueue' = top.timeInQueue
    /\ pc' = "done"
    /\ UNCHANGED <<confVars, histVars, currentTime, totalContextSwitches, currentProcess,
                   runningProcess, readyQueue, ganttChart>>

\* the rest of an iteration with a level to serve: one quantum of its head
MLFQSlice(top) ==
    LET queueToSchedule == MLFQHighestPriorityQueue(top.queues)
        process == Head(top.queues[queueToSchedule])
        qs1 == [top.queues EXCEPT ![queueToSchedule] = Tail(@)]
        cs == contextSwitch(top.processes, currentTime, totalContextSwitches,
                            currentProcess, process)
        quantum == timeQuantums[queueToSchedule]
        executionTime == ExecutionTime(cs.processes[process], quantum)
        ps1 == [cs.processes EXCEPT ![process] = Execute(@, quantum)]
        ps2 == addWaitingToOthers(ps1, process, executionTime)
        t1 == cs.currentTime + executionTime
        complete == isComplete(ps2[process])
        demote == ~complete /\ executionTime = quantum
        levels == IF demote THEN demoteLevel(top.processQueueLevel, process)
                  ELSE top.processQueueLevel
        times == IF demote
                 THEN demoteTime(top.processQueueLevel, top.timeInQueue, process)
                 ELSE top.timeInQueue
        ps3 == admitArrivingProcesses([ps2 EXCEPT ![process].state = "READY"], t1)
        new == MLFQNewlyReady(ps3, qs1, levels, t1, process)
        final == IF complete
                 THEN [ps2 EXCEPT ![process] = Terminate(@, t1)]
                 ELSE setLastScheduledTime(ps3, new \cup {process}, t1)
    IN [processes |-> final,
        queues |-> IF complete THEN qs1
                   ELSE [MLFQPush(qs1, levels, new) EXCEPT
                            ![levels[process]] = Append(@, process)],
        processQueueLevel |-> levels,
        timeInQueue |-> times,
        ganttChart |-> ganttChart \o Labels(process, executionTime),
        currentTime |-> t1,
        totalContextSwitches |-> cs.totalContextSwitches,
        pc |-> AfterIteration(final)]

MLFQDispatch ==
    /\ pc = "loop" /\ strategy = "MLFQ"
    /\ \E top \in {MLFQTop} :
        /\ MLFQHighestPriorityQueue(top.queues) # NoQueue
        /\ \E step \in {MLFQSlice(top)} :
            /\ WithinGrowth(step.processes)
            /\ processes' = step.processes
            /\ queues' = step.queues
            /\ processQueueLevel' = step.processQueueLevel
            /\ timeInQueue' = step.timeInQueue
            /\ ganttChart' = step.ganttChart
            /\ currentTime' = step.currentTime
            /\ totalContextSwitches' = step.totalContextSwitches
            /\ pc' = step.pc
    /\ currentProcess' = NoProcess
    /\ UNCHANGED <<confVars, histVars, runningProcess, readyQueue>>

----------------------------------------------------------------------------
(* schedule(): the statements before the loop *)

ScheduleBegin ==
    /\ pc = "init"
    /\ currentTime' = EarliestArrival(processes)
    /\ ganttChart' = <<>>
    /\ processQueueLevel' = IF strategy = "MLFQ"
                            THEN [i \in DOMAIN processes |-> 0]
                            ELSE processQueueLevel
    /\ timeInQueue' = IF strategy = "MLFQ"
                      THEN [i \in DOMAIN processes |-> 0]
                      ELSE timeInQueue
    /\ runningProcess' = NoProcess
    /\ pc' = "loop"
    /\ enqueues' = {}
    /\ UNCHANGED <<confVars, runVars, processes, totalContextSwitches, currentProcess,
                   readyQueue, queues>>

\* what a finished run leaves to compare a later run with
RunResult == [ganttChart |-> ganttChart, processes |-> processes]

NoRun == [ganttChart |-> <<>>, processes |-> <<>>]

\* Scheduler::reset, called between two schedule() calls: the clock, the switch
\* counter, currentProcess and every process are set back; the queues and the
\* Gantt chart are not touched
Reset ==
    /\ pc = "done"
    /\ runCount < MaxRuns
    /\ currentTime' = 0
    /\ totalContextSwitches' = 0
    /\ currentProcess' = NoProcess
    /\ processes' = [i \in DOMAIN processes |-> reset(processes[i])]
    /\ pc' = "init"
    /\ runCount' = runCount + 1
    /\ firstRun' = IF runCount = 1 THEN RunResult ELSE firstRun
    /\ UNCHANGED <<confVars, added, call, enqueues, runningProcess, readyQueue, queues,
                   processQueueLevel, timeInQueue, ganttChart>>

----------------------------------------------------------------------------
(* Workloads and scheduler objects *)

ProcessArgs == [arrivalTime : 0..MaxArrival, burstTime : 1..MaxBurst,
                priority : 0..MaxPriority]

Args(arrivalTime, burstTime, priority) ==
    [arrivalTime |-> arrivalTime, burstTime |-> burstTime, priority |-> priority]

\* the workload of test_priority_non_preemptive
PriorityScenario == <<Args(0, 5, 3), Args(1, 3, 1), Args(2, 2, 2)>>

\* the workload of test_context_switch_overhead
RoundRobinScenario == <<Args(0, 4, 0), Args(0, 4, 0)>>

\* every workload within the bounds, and the two scenarios
Workloads ==
    UNION {[1..n -> ProcessArgs] : n \in 1..MaxProcs}
        \cup {PriorityScenario, RoundRobinScenario}

\* the three-process Round Robin workloads, as in test_round_robin_basic and
\* test_round_robin_arrivals: arrivals up to MaxTrioArrival, priority 0
RoundRobinWorkloads ==
    [1..3 -> [arrivalTime : 0..MaxTrioArrival, burstTime : 1..MaxBurst,
              priority : {0}]]

\* the three-process Multilevel Queue workloads, as in test_multilevel_queue,
\* here with one priority value and any arrival times
MultilevelQueueWorkloads ==
    [1..3 -> [arrivalTime : 0..MaxArrival, burstTime : 1..MaxBurst,
              priority : {0}]]

AddProcesses(w) ==
    [i \in DOMAIN w |-> Process(w[i].arrivalTime, w[i].burstTime, w[i].priority)]

\* Scheduler::Scheduler and the members no constructor argument sets
InitScheduler(w) ==
    /\ processes = AddProcesses(w)
    /\ currentTime = 0
    /\ totalContextSwitches = 0
    /\ currentProcess = NoProcess
    /\ runningProcess = NoProcess
    /\ readyQueue = <<>>
    /\ processQueueLevel = <<>>
    /\ timeInQueue = <<>>
    /\ ganttChart = <<>>
    /\ pc = "init"
    /\ added = w
    /\ runCount = 1
    /\ firstRun = NoRun
    /\ enqueues = {}

InitRR ==
    /\ strategy = "RR"
    /\ contextSwitchOverhead \in 0..MaxOverhead
    /\ timeQuantum \in 1..MaxQuantum
    /\ preemptive = FALSE /\ agingEnabled = FALSE /\ agingInterval = 1
    /\ queueConfigs = <<>> /\ numQueues = 0 /\ timeQuantums = <<>>
    /\ agingThreshold = 1
    /\ queues = <<>>
    /\ \E w \in Workloads \cup RoundRobinWorkloads : InitScheduler(w)
    /\ call = NoCall

InitPrio ==
    /\ strategy = "PRIO"
    /\ contextSwitchOverhead \in 0..MaxOverhead
    /\ preemptive \in BOOLEAN
    /\ agingEnabled \in BOOLEAN
    /\ agingInterval \in 1..MaxAgingInterval
    /\ timeQuantum = 1
    /\ queueConfigs = <<>> /\ numQueues = 0 /\ timeQuantums = <<>>
    /\ agingThreshold = 1
    /\ queues = <<>>
    /\ \E w \in Workloads : InitScheduler(w)
    /\ call = NoCall

\* the queue configurations addQueueConfig can build: a map from threshold to
\* (algorithm, quantum); the quantum of an FCFS queue is not read
QueueConfig(algorithm, quantum) == [algorithm |-> algorithm, timeQuantum |-> quantum]

QueueConfigChoices ==
    {QueueConfig("FCFS", 0)} \cup {QueueConfig("ROUND_ROBIN", q) : q \in 1..MaxQuantum}

QueueConfigMaps ==
    UNION {[T -> QueueConfigChoices] :
            T \in {S \in SUBSET (0..MaxPriority) : S # {} /\ Cardinality(S) <= MaxQueues}}

InitMLQ ==
    /\ strategy = "MLQ"
    /\ contextSwitchOverhead \in 0..MaxOverhead
    /\ queueConfigs \in QueueConfigMaps
    /\ queues = [k \in DOMAIN queueConfigs |-> <<>>]
    /\ timeQuantum = 1
    /\ preemptive = FALSE /\ agingEnabled = FALSE /\ agingInterval = 1
    /\ numQueues = 0 /\ timeQuantums = <<>>
    /\ agingThreshold = 1
    /\ \E w \in Workloads \cup MultilevelQueueWorkloads : InitScheduler(w)
    /\ call = NoCall

InitMLFQ ==
    /\ strategy = "MLFQ"
    /\ contextSwitchOverhead \in 0..MaxOverhead
    /\ numQueues \in 1..MaxQueues
    /\ agingEnabled \in BOOLEAN
    /\ agingThreshold \in 1..MaxAgingInterval
    /\ timeQuantums \in [0..(numQueues - 1) -> 1..MaxQuantum]
                            \cup {DefaultTimeQuantums(numQueues)}
    /\ queues = [k \in 0..(numQueues - 1) |-> <<>>]
    /\ timeQuantum = 1
    /\ preemptive = FALSE /\ agingInterval = 1
    /\ queueConfigs = <<>>
    /\ \E w \in Workloads : InitScheduler(w)
    /\ call = NoCall

Init == InitRR \/ InitPrio \/ InitMLQ \/ InitMLFQ

\* the non-positive quanta a constructor or setter is called with
BadQuantums == (0 - MaxBadQuantum)..0

\* RoundRobinScheduler(quantum, overhead) with quantum <= 0
InitBadRR ==
    /\ strategy = "RR"
    /\ contextSwitchOverhead \in 0..MaxOverhead
    /\ timeQuantum \in BadQuantums
    /\ preemptive = FALSE /\ agingEnabled = FALSE /\ agingInterval = 1
    /\ queueConfigs = <<>> /\ numQueues = 0 /\ timeQuantums = <<>>
    /\ agingThreshold = 1
    /\ queues = <<>>
    /\ \E w \in Workloads : InitScheduler(w)
    /\ call = NoCall

\* addQueueConfig calls of which every ROUND_ROBIN one has a quantum <= 0,
\* and at least one is ROUND_ROBIN
BadQueueConfigMaps ==
    LET choices == {QueueConfig("FCFS", 0)}
                       \cup {QueueConfig("ROUND_ROBIN", q) : q \in BadQuantums}
    IN {c \in UNION {[T -> choices] :
                        T \in {S \in SUBSET (0..MaxPriority) :
                                  S # {} /\ Cardinality(S) <= MaxQueues}} :
            \E k \in DOMAIN c : c[k].algorithm = "ROUND_ROBIN"}

InitBadMLQ ==
    /\ strategy = "MLQ"
    /\ contextSwitchOverhead \in 0..MaxOverhead
    /\ queueConfigs \in BadQueueConfigMaps
    /\ queues = [k \in DOMAIN queueConfigs |-> <<>>]
    /\ timeQuantum = 1
    /\ preemptive = FALSE /\ agingEnabled = FALSE /\ agingInterval = 1
    /\ numQueues = 0 /\ timeQuantums = <<>>
    /\ agingThreshold = 1
    /\ \E w \in Workloads : InitScheduler(w)
    /\ call = NoCall

\* setTimeQuantum(k, quantum) with quantum <= 0 on every level, aging off
InitBadMLFQ ==
    /\ strategy = "MLFQ"
    /\ contextSwitchOverhead \in 0..MaxOverhead
    /\ numQueues \in 1..MaxQueues
    /\ agingEnabled = FALSE
    /\ agingThreshold \in 1..MaxAgingInterval
    /\ timeQuantums \in [0..(numQueues - 1) -> BadQuantums]
    /\ queues = [k \in 0..(numQueues - 1) |-> <<>>]
    /\ timeQuantum = 1
    /\ preemptive = FALSE /\ agingInterval = 1
    /\ queueConfigs = <<>>
    /\ \E w \in Workloads : InitScheduler(w)
    /\ call = NoCall

InitBadQuantum == InitBadRR \/ InitBadMLQ \/ InitBadMLFQ

\* the workloads in which no preemption can occur: one priority value for all
EqualPriorityWorkloads ==
    {w \in Workloads : \A i, j \in DOMAIN w : w[i].priority = w[j].priority}

\* PriorityScheduler(false, false, interval, 0) given such a workload; a second
\* scheduler, preemptive, is given the same workload afterwards
InitPrioPair ==
    /\ strategy = "PRIO"
    /\ contextSwitchOverhead = 0
    /\ preemptive = FALSE
    /\ agingEnabled = FALSE
    /\ agingInterval \in 1..MaxAgingInterval
    /\ timeQuantum = 1
    /\ queueConfigs = <<>> /\ numQueues = 0 /\ timeQuantums = <<>>
    /\ agingThreshold = 1
    /\ queues = <<>>
    /\ \E w \in EqualPriorityWorkloads : InitScheduler(w)
    /\ call = NoCall

\* a Process object on its own, as the unit tests of Process use it
InitProcess ==
    /\ strategy = "NONE"
    /\ contextSwitchOverhead = 0
    /\ timeQuantum = 1
    /\ preemptive = FALSE /\ agingEnabled = FALSE /\ agingInterval = 1
    /\ queueConfigs = <<>> /\ numQueues = 0 /\ timeQuantums = <<>>
    /\ agingThreshold = 1
    /\ queues = <<>>
    /\ \E a \in ProcessArgs :
        /\ InitScheduler(<<a>>)
        /\ call = [NoCall EXCEPT !.before = a.burstTime]

\* one call process.execute(units) with units >= 0, and what it returned
ProcessExecute ==
    /\ strategy = "NONE"
    /\ \E units \in 0..MaxUnits :
        /\ processes' = [processes EXCEPT ![1] = Execute(@, units)]
        /\ call' = [units |-> units,
                    before |-> processes[1].remainingTime,
                    returned |-> ExecutionTime(processes[1], units),
                    total |-> call.total + ExecutionTime(processes[1], units)]
    /\ UNCHANGED <<confVars, added, runCount, firstRun, enqueues, currentTime,
                   totalContextSwitches, currentProcess, runningProcess, readyQueue,
                   queues, processQueueLevel, timeInQueue, ganttChart, pc>>

NextProcess == ProcessExecute

NextRR == ScheduleBegin \/ RRIdle \/ RRFinish \/ RRDispatch \/ Reset

NextPrio ==
    \/ ScheduleBegin
    \/ PrioQueueEmpty \/ PrioDispatchPreemptive \/ PrioDispatchNonPreemptive
    \/ Reset

NextMLQ == ScheduleBegin \/ MLQIdle \/ MLQFinish \/ MLQDispatch \/ Reset

NextMLFQ == ScheduleBegin \/ MLFQIdle \/ MLFQFinish \/ MLFQDispatch \/ Reset

Next ==
    \/ ScheduleBegin
    \/ RRIdle \/ RRFinish \/ RRDispatch
    \/ PrioQueueEmpty \/ PrioDispatchPreemptive \/ PrioDispatchNonPreemptive
    \/ MLQIdle \/ MLQFinish \/ MLQDispatch
    \/ MLFQIdle \/ MLFQFinish \/ MLFQDispatch
    \/ Reset

Spec == Init /\ [][Next]_vars

SpecRR == InitRR /\ [][NextRR]_vars

SpecPrio == InitPrio /\ [][NextPrio]_vars

SpecMLQ == InitMLQ /\ [][NextMLQ]_vars

SpecMLFQ == InitMLFQ /\ [][NextMLFQ]_vars

SpecProcess == InitProcess /\ [][NextProcess]_vars

NextBadQuantum ==
    \/ ScheduleBegin
    \/ RRIdle \/ RRFinish \/ RRDispatch
    \/ MLQIdle \/ MLQFinish \/ MLQDispatch
    \/ MLFQIdle \/ MLFQFinish \/ MLFQDispatch
    \/ Reset

SpecBadQuantum == InitBadQuantum /\ [][NextBadQuantum]_vars

\* after the non-preemptive run: PriorityScheduler(true, false, interval, 0)
\* is constructed and given the same processes; the first run is kept to
\* compare with
SecondScheduler ==
    /\ pc = "done" /\ strategy = "PRIO"
    /\ ~preemptive /\ firstRun = NoRun
    /\ preemptive' = TRUE
    /\ firstRun' = RunResult
    /\ processes' = AddProcesses(added)
    /\ currentTime' = 0
    /\ totalContextSwitches' = 0
    /\ currentProcess' = NoProcess
    /\ runningProcess' = NoProcess
    /\ readyQueue' = <<>>
    /\ ganttChart' = <<>>
    /\ pc' = "init"
    /\ UNCHANGED <<strategy, contextSwitchOverhead, timeQuantum, agingEnabled,
                   agingInterval, queueConfigs, numQueues, timeQuantums,
                   agingThreshold, queues, processQueueLevel, timeInQueue,
                   added, runCount, call, enqueues>>

NextPrioPair ==
    \/ ScheduleBegin
    \/ PrioQueueEmpty \/ PrioDispatchPreemptive \/ PrioDispatchNonPreemptive
    \/ SecondScheduler

SpecPrioPair == InitPrioPair /\ [][NextPrioPair]_vars

----------------------------------------------------------------------------
(* Properties *)

Last(q) == q[Len(q)]

Terminated(i) == processes[i].state = "TERMINATED"

\* the scheduler was given workload w (priorities as added)
Added(w) ==
    /\ Len(processes) = Len(w)
    /\ \A i \in DOMAIN w : /\ processes[i].arrivalTime = w[i].arrivalTime
                           /\ processes[i].burstTime = w[i].burstTime

\* a process that was admitted and still has work to do
AdmittedUnfinished(p) ==
    \/ p.state = "READY"
    \/ p.state = "RUNNING" /\ p.remainingTime > 0

\* the step appends one IDLE entry to the Gantt chart
RecordsIdle ==
    /\ Len(ganttChart') = Len(ganttChart) + 1
    /\ Last(ganttChart') = IDLE

\* the step puts a process on the CPU right after a slice of another process
DispatchesAfterOther ==
    /\ Len(ganttChart') > Len(ganttChart)
    /\ ganttChart # <<>>
    /\ Last(ganttChart) # IDLE
    /\ ganttChart'[Len(ganttChart) + 1] # IDLE
    /\ ganttChart'[Len(ganttChart) + 1] # Last(ganttChart)

\* C1: when RoundRobinScheduler::schedule() has returned, every added process
\* is TERMINATED (any workload with positive bursts, any positive quantum).
C1_RoundRobinAllTerminated ==
    (strategy = "RR" /\ pc = "done") => AllTerminated(processes)

\* C2: when PriorityScheduler::schedule() has returned in preemptive mode, every
\* added process is TERMINATED with remainingTime 0.
C2_PreemptiveAllTerminated ==
    (strategy = "PRIO" /\ preemptive /\ pc = "done") =>
        \A i \in DOMAIN processes : Terminated(i) /\ processes[i].remainingTime = 0

\* C3: when PriorityScheduler::schedule() has returned in non-preemptive mode
\* (aging on or off, agingInterval >= 1), every added process is TERMINATED.
C3_NonPreemptiveAllTerminated ==
    (strategy = "PRIO" /\ ~preemptive /\ pc = "done") => AllTerminated(processes)

\* C3 witness: a finished non-preemptive run with aging, an idle gap and two
\* processes, both terminated.
C3_Witness ==
    /\ strategy = "PRIO" /\ ~preemptive /\ agingEnabled /\ pc = "done"
    /\ Len(processes) >= 2
    /\ \E k \in DOMAIN ganttChart : ganttChart[k] = IDLE
    /\ AllTerminated(processes)

\* C4: when MultilevelQueueScheduler::schedule() (at least one queue, positive
\* quanta) or MultilevelFeedbackQueueScheduler::schedule() has returned, every
\* added process is TERMINATED.
C4_MultilevelAllTerminated ==
    (strategy \in {"MLQ", "MLFQ"} /\ pc = "done") => AllTerminated(processes)

\* C5: under every strategy, in every state the program can reach (a run after
\* reset() included), a TERMINATED process has remainingTime = 0,
\* completionTime >= arrivalTime + burstTime, turnaroundTime = completionTime -
\* arrivalTime and responseTime = startTime - arrivalTime >= 0.
C5_TerminatedMetrics ==
    \A i \in DOMAIN processes :
        Terminated(i) =>
            /\ processes[i].remainingTime = 0
            /\ processes[i].completionTime >=
                   processes[i].arrivalTime + processes[i].burstTime
            /\ processes[i].turnaroundTime =
                   processes[i].completionTime - processes[i].arrivalTime
            /\ processes[i].responseTime =
                   processes[i].startTime - processes[i].arrivalTime
            /\ processes[i].responseTime >= 0

\* C6: with zero context-switch overhead, under every strategy, a terminated
\* process's tracked waitingTime equals turnaroundTime - burstTime.
C6_WaitingIsTurnaroundMinusBurst ==
    \A i \in DOMAIN processes :
        (contextSwitchOverhead = 0 /\ Terminated(i)) =>
            processes[i].waitingTime =
                processes[i].turnaroundTime - processes[i].burstTime

\* C7: non-preemptive Priority, no aging, zero overhead, P1(0,5,3) P2(1,3,1)
\* P3(2,2,2): the trace is P1 x5, P2 x3, P3 x2 and the waiting times are 0, 4, 6.
C7_PriorityScenario ==
    (/\ strategy = "PRIO" /\ ~preemptive /\ ~agingEnabled
     /\ contextSwitchOverhead = 0
     /\ Added(PriorityScenario)
     /\ pc = "done") =>
        /\ ganttChart = <<1, 1, 1, 1, 1, 2, 2, 2, 3, 3>>
        /\ processes[1].waitingTime = 0
        /\ processes[2].waitingTime = 4
        /\ processes[3].waitingTime = 6

\* C8: Round Robin, quantum 2, zero overhead, P1(0,4) P2(0,4): the trace is
\* P1 P1 P2 P2 P1 P1 P2 P2, both are complete at time 8, the average waiting
\* time (total waiting over the number of processes) is 2.
C8_RoundRobinScenario ==
    (/\ strategy = "RR" /\ timeQuantum = 2 /\ contextSwitchOverhead = 0
     /\ Added(RoundRobinScenario)
     /\ pc = "done") =>
        /\ ganttChart = <<1, 1, 2, 2, 1, 1, 2, 2>>
        /\ AllTerminated(processes)
        /\ currentTime = 8
        /\ processes[1].waitingTime + processes[2].waitingTime = 2 * 2

\* C9: under every strategy, whenever the process put on the CPU differs from
\* the process of the immediately preceding slice, totalContextSwitches grows
\* by exactly one (and the clock is charged contextSwitchOverhead).
C9_SwitchCounted ==
    [][DispatchesAfterOther =>
          /\ totalContextSwitches' = totalContextSwitches + 1
          /\ currentTime' - currentTime =
                 contextSwitchOverhead + (Len(ganttChart') - Len(ganttChart))]_vars

\* C10: under every strategy an IDLE entry is recorded (and the clock jumps to
\* the next arrival) only when no admitted unfinished process exists.
C10_WorkConserving ==
    [][RecordsIdle =>
          \A i \in DOMAIN processes : ~AdmittedUnfinished(processes'[i])]_vars

\* the number of Gantt chart entries labelled with process i
Entries(i) == Cardinality({k \in DOMAIN ganttChart : ganttChart[k] = i})

\* C11: when a run has ended, under every strategy, the number of trace entries
\* labelled with a process equals that process's burstTime (so the non-idle
\* entries number the sum of the bursts).
C11_TraceEntriesEqualBurst ==
    pc = "done" => \A i \in DOMAIN processes : Entries(i) = processes[i].burstTime

\* C12: the trace holds one entry per simulated time unit: with zero overhead,
\* when schedule() has returned, the trace length equals the final clock minus
\* the earliest arrival time (an idle gap of k units contributes k IDLE entries).
C12_OneEntryPerTimeUnit ==
    (contextSwitchOverhead = 0 /\ pc = "done") =>
        Len(ganttChart) = currentTime - EarliestArrival(processes)

\* the metrics a run leaves in a process
Metrics(p) ==
    <<p.state, p.remainingTime, p.startTime, p.completionTime, p.waitingTime,
      p.turnaroundTime, p.responseTime>>

\* C13: Scheduler::reset() restores every process to the snapshot it was added
\* with (remainingTime = burstTime, NEW, metrics cleared, original priority),
\* and reset() followed by schedule() reproduces the trace and the per-process
\* metrics of the first run, under every strategy.
C13_ResetRestoresSnapshot ==
    /\ (pc = "init" /\ runCount > 1) =>
           \A i \in DOMAIN processes :
               processes[i] = Process(added[i].arrivalTime, added[i].burstTime,
                                      added[i].priority)
    /\ (pc = "done" /\ runCount = 2) =>
           /\ ganttChart = firstRun.ganttChart
           /\ \A i \in DOMAIN processes :
                  Metrics(processes[i]) = Metrics(firstRun.processes[i])

\* C14: Process::execute(units) with units >= 0 reduces remainingTime by
\* min(units, remainingTime) and returns that amount; so 0 <= remainingTime <=
\* burstTime after any sequence of calls, and isComplete() holds exactly when
\* the executed total has reached burstTime.
C14_ExecuteConsumesMin ==
    strategy = "NONE" =>
        /\ call.returned = Min(call.units, call.before)
        /\ processes[1].remainingTime = call.before - call.returned
        /\ 0 <= processes[1].remainingTime
        /\ processes[1].remainingTime <= processes[1].burstTime
        /\ call.total = processes[1].burstTime - processes[1].remainingTime
        /\ isComplete(processes[1]) <=> call.total = processes[1].burstTime

\* C14 witness: a call that asked for more than was left and finished the process
C14_Witness ==
    /\ strategy = "NONE"
    /\ call.before > 0
    /\ call.units > call.before
    /\ call.returned = call.before
    /\ isComplete(processes[1])

\* C15: under Priority scheduling with aging enabled a process cannot stay
\* READY for more than agingInterval time units without its priority value
\* being decreased (until 0), also when the clock passed the multiple of
\* agingInterval in a jump: a process admitted at the start of the first run
\* and first dispatched more than agingInterval units after its arrival has by
\* then a priority value below the one it was added with.
C15_AgedWhileReady ==
    (strategy = "PRIO" /\ agingEnabled /\ runCount = 1) =>
        \A i \in DOMAIN processes :
            (/\ processes[i].arrivalTime = EarliestArrival(processes)
             /\ processes[i].startTime # -1
             /\ processes[i].startTime - processes[i].arrivalTime > agingInterval
             /\ added[i].priority > 0)
            => processes[i].priority < added[i].priority

\* process x was first dispatched only after process y had completed
StartedAfterCompletion(x, y) ==
    /\ processes[x].startTime # -1
    /\ processes[y].state = "TERMINATED"
    /\ processes[x].startTime >= processes[y].completionTime

\* two processes of equal arrival time, i before j in the process list
SameArrival(i, j) ==
    /\ i < j
    /\ processes[i].arrivalTime = processes[j].arrivalTime

\* in no pair is either process first dispatched only after the other has
\* completed, unless the other's burst fits in one quantum
NoneStartsAfterOther(i, j) ==
    /\ StartedAfterCompletion(i, j) => processes[j].burstTime <= timeQuantum
    /\ StartedAfterCompletion(j, i) => processes[i].burstTime <= timeQuantum

C17_OneQueuePerProcess ==
    strategy = "MLQ" =>
        /\ \A e1, e2 \in enqueues : e1[1] = e2[1] => e1[2] = e2[2]
        /\ \A k \in DOMAIN queues : \A i \in DOMAIN processes :
               InQueue(queues[k], i) => <<i, k>> \in enqueues

\* C17 witness: with two queues, the first of them Round Robin, a process has
\* been pushed into the first queue, has run a slice and stands in it again
C17_Witness ==
    /\ strategy = "MLQ"
    /\ Cardinality(DOMAIN queueConfigs) = 2
    /\ \E i \in DOMAIN processes :
        LET k == SetMin(DOMAIN queueConfigs)
        IN /\ queueConfigs[k].algorithm = "ROUND_ROBIN"
           /\ <<i, k>> \in enqueues
           /\ InQueue(queues[k], i)
           /\ processes[i].startTime # -1
           /\ processes[i].remainingTime > 0

\* a time quantum that is not positive has been configured
BadQuantumConfigured ==
    \/ strategy = "RR" /\ timeQuantum <= 0
    \/ /\ strategy = "MLQ"
       /\ \E k \in DOMAIN queueConfigs :
            /\ queueConfigs[k].algorithm = "ROUND_ROBIN"
            /\ queueConfigs[k].timeQuantum <= 0
    \/ /\ strategy = "MLFQ"
       /\ \E k \in DOMAIN timeQuantums : timeQuantums[k] <= 0

\* C18: a scheduler configured with a non-positive time quantum is rejected
\* before the run starts: schedule() dispatches no process (none leaves its
\* first-schedule state) and no process's remainingTime exceeds its burstTime.
C18_BadQuantumRejected ==
    BadQuantumConfigured =>
        \A i \in DOMAIN processes :
            /\ processes[i].firstSchedule
            /\ processes[i].startTime = -1
            /\ processes[i].remainingTime <= processes[i].burstTime

\* (priority value, arrivalTime) of p is not after that of q
PrecedesOrEqual(p, q) ==
    \/ p.priority < q.priority
    \/ p.priority = q.priority /\ p.arrivalTime <= q.arrivalTime

\* C19: in non-preemptive Priority mode, at every dispatch the selected process
\* has the minimal (priority value, arrivalTime) pair among the processes READY
\* at that moment: in the step that runs process j (to TERMINATED), j is not
\* after any process the step leaves READY.
C19_DispatchesMinimalPair ==
    [][(strategy = "PRIO" /\ ~preemptive) =>
          \A j \in DOMAIN processes :
              (processes[j].state # "TERMINATED" /\ processes'[j].state = "TERMINATED")
              => \A i \in DOMAIN processes :
                     processes'[i].state = "READY"
                     => PrecedesOrEqual(processes'[j], processes'[i])]_vars

\* C19 witness: without aging, a process later in the list was dispatched
\* while an earlier-listed one of larger priority value had arrived and not run
C19_Witness ==
    /\ strategy = "PRIO" /\ ~preemptive /\ ~agingEnabled
    /\ \E i, j \in DOMAIN processes :
        /\ i < j
        /\ Terminated(j)
        /\ processes[j].priority < processes[i].priority
        /\ processes[i].arrivalTime <= processes[j].startTime
        /\ processes[i].state = "READY"

\* the trace entries of process i are consecutive
Contiguous(i) ==
    \A k1, k2 \in DOMAIN ganttChart :
        (k1 < k2 /\ ganttChart[k1] = i /\ ganttChart[k2] = i)
        => \A k \in k1..k2 : ganttChart[k] = i

\* C20: in non-preemptive Priority mode a dispatched process runs its whole
\* burst in one contiguous slice: its trace entries are consecutive, as many as
\* its burst, and completionTime - startTime = burstTime, also when a process
\* with a lower priority value arrives during the slice.
C20_OneContiguousSlice ==
    (strategy = "PRIO" /\ ~preemptive) =>
        \A i \in DOMAIN processes :
            /\ Contiguous(i)
            /\ processes[i].startTime # -1 =>
                   /\ Terminated(i)
                   /\ processes[i].completionTime - processes[i].startTime
                          = processes[i].burstTime
                   /\ Entries(i) = processes[i].burstTime

\* C20 witness: a process with a lower priority value arrived during the slice
\* of another, which ran on to its end before the newcomer was dispatched
C20_Witness ==
    /\ strategy = "PRIO" /\ ~preemptive
    /\ \E i, j \in DOMAIN processes :
        /\ Terminated(i) /\ Terminated(j)
        /\ processes[j].priority < processes[i].priority
        /\ processes[i].startTime < processes[j].arrivalTime
        /\ processes[j].arrivalTime < processes[i].completionTime
        /\ processes[j].startTime >= processes[i].completionTime
        /\ processes[i].burstTime > 1

\* (priority value, arrivalTime) of p is strictly before that of q
StrictlyPrecedes(p, q) ==
    \/ p.priority < q.priority
    \/ p.priority = q.priority /\ p.arrivalTime < q.arrivalTime

\* the READY processes, after the admission and aging of this iteration, that
\* have strictly higher precedence than the running process
Preemptors ==
    {i \in Ready(PrioTop) : StrictlyPrecedes(PrioTop[i], PrioTop[runningProcess])}

\* C21: in preemptive Priority mode, at every unit boundary (arrivals admitted,
\* aging applied), if some READY process has strictly higher precedence than
\* the running process (lower priority value, or equal value and earlier
\* arrival), the running process is returned to READY with its remainingTime
\* unchanged and such a READY process executes the next time unit.
C21_PreemptsOnHigherPrecedence ==
    [][(/\ strategy = "PRIO" /\ preemptive /\ pc = "loop"
        /\ runningProcess # NoProcess
        /\ Preemptors # {})
       => /\ processes'[runningProcess].state = "READY"
          /\ processes'[runningProcess].remainingTime
                 = processes[runningProcess].remainingTime
          /\ Len(ganttChart') = Len(ganttChart) + 1
          /\ Last(ganttChart') \in Preemptors]_vars

\* C22: with aging enabled in Priority scheduling, at every aging check (a loop
\* iteration whose currentTime is a multiple of agingInterval) the priority
\* value of every process that is READY (arrivals admitted) is decremented by
\* exactly one, except that a priority value of 0 stays 0.
C22_AgingDecrementsEveryReady ==
    [][(/\ strategy = "PRIO" /\ agingEnabled /\ pc = "loop"
        /\ currentTime % agingInterval = 0)
       => \A i \in Ready(admitArrivingProcesses(processes, currentTime)) :
              processes'[i].priority =
                  IF processes[i].priority > 0 THEN processes[i].priority - 1 ELSE 0]_vars

\* what the two Priority modes are compared on
FinalMetrics(p) == <<p.completionTime, p.waitingTime, p.turnaroundTime, p.responseTime>>

\* C23: for a workload in which all processes have the same priority value,
\* with aging disabled and zero overhead, the preemptive run (one unit at a
\* time) ends with the same trace and the same per-process completionTime,
\* waitingTime, turnaroundTime and responseTime as the non-preemptive run
\* (whole bursts) of the same workload.
C23_UnitSteppingEqualsBursts ==
    (/\ strategy = "PRIO" /\ preemptive /\ pc = "done"
     /\ runCount = 1 /\ firstRun # NoRun) =>
        /\ ganttChart = firstRun.ganttChart
        /\ \A i \in DOMAIN processes :
               FinalMetrics(processes[i]) = FinalMetrics(firstRun.processes[i])

\* the place of process i in queue q
Position(q, i) == CHOOSE k \in DOMAIN q : q[k] = i

\* the step is a Round Robin slice of process p that did not complete it
SliceWithoutCompletion(p) ==
    /\ strategy = "RR" /\ pc = "loop"
    /\ Len(ganttChart') > Len(ganttChart)
    /\ Last(ganttChart') = p
    /\ processes'[p].remainingTime > 0

\* the processes other than p that arrived from the start to the end of the slice
ArrivedDuringSlice(p) ==
    {i \in DOMAIN processes \ {p} :
        /\ currentTime <= processes[i].arrivalTime
        /\ processes[i].arrivalTime <= currentTime'}

\* C24: in Round Robin, when a slice ends without completion, every process
\* that arrived during the slice (from its start up to and including its end)
\* stands in the ready queue ahead of the just-run process, those processes in
\* order of arrival time, and the just-run process is at the tail.
C24_ArrivalsAheadOfJustRun ==
    [][\A p \in DOMAIN processes :
          SliceWithoutCompletion(p) =>
              /\ readyQueue' # <<>> /\ Last(readyQueue') = p
              /\ \A i \in ArrivedDuringSlice(p) :
                     /\ InQueue(readyQueue', i)
                     /\ Position(readyQueue', i) < Position(readyQueue', p)
              /\ \A i, j \in ArrivedDuringSlice(p) :
                     (/\ InQueue(readyQueue', i) /\ InQueue(readyQueue', j)
                      /\ processes[i].arrivalTime < processes[j].arrivalTime)
                     => Position(readyQueue', i) < Position(readyQueue', j)]_vars

\* the thresholds of the configured queues that are >= the priority
FittingThresholds(priority) == {t \in DOMAIN queueConfigs : t >= priority}

MLQDispatches(p) ==
    /\ strategy = "MLQ" /\ pc = "loop"
    /\ Len(ganttChart') > Len(ganttChart)
    /\ Last(ganttChart') = p

\* C26: in a Multilevel Queue run, whenever a process routed to queue q is
\* dispatched, no process that is READY at that moment (arrivals admitted) is
\* routed to a queue with a smaller threshold than q.
C26_NoLowerQueueWhileHigherReady ==
    [][\A p \in DOMAIN processes :
          MLQDispatches(p) =>
              \A i \in Ready(admitArrivingProcesses(processes, currentTime)) :
                  TargetQueue(processes[i].priority)
                      >= TargetQueue(processes[p].priority)]_vars

\* processes i and j are routed to the same queue, and it is an FCFS queue
SameFCFSQueue(i, j) ==
    LET k == TargetQueue(processes[i].priority)
    IN /\ k # NoQueue
       /\ TargetQueue(processes[j].priority) = k
       /\ queueConfigs[k].algorithm = "FCFS"

\* C27: within a Multilevel Queue queue configured as FCFS, processes are
\* dispatched in order of arrival time and each runs its full burst in one
\* dispatch: a process of that queue is never dispatched before another
\* process of the same queue that arrived strictly earlier.
C27_FCFSInArrivalOrder ==
    strategy = "MLQ" =>
        \A i, j \in DOMAIN processes :
            (/\ SameFCFSQueue(i, j)
             /\ processes[j].startTime # -1)
            => /\ Terminated(j)
               /\ processes[j].completionTime - processes[j].startTime
                      = processes[j].burstTime
               /\ processes[i].arrivalTime < processes[j].arrivalTime
                      => /\ processes[i].startTime # -1
                         /\ processes[i].startTime < processes[j].startTime

\* the step dispatches process p in a Multilevel Feedback Queue run
MLFQDispatches(p) ==
    /\ strategy = "MLFQ" /\ pc = "loop"
    /\ Len(ganttChart') > Len(ganttChart)
    /\ Last(ganttChart') = p

\* the level whose queue the dispatch of this iteration serves
ServedLevel == MLFQHighestPriorityQueue(MLFQTop.queues)

\* C28: in a Multilevel Feedback Queue run every process starts at level 0,
\* and after a dispatch at level L its recorded level becomes min(L+1, N-1)
\* exactly when it consumed the whole quantum of that level and still has
\* remainingTime > 0; otherwise the dispatch leaves its recorded level as it
\* was. The recorded level always stays within 0..N-1.
C28_DemotedAfterFullQuantum ==
    [][strategy = "MLFQ" =>
        /\ (pc = "init" /\ pc' = "loop") =>
               \A i \in DOMAIN processes : processQueueLevel'[i] = 0
        /\ pc = "loop" =>
               \A i \in DOMAIN processes :
                   processQueueLevel'[i] \in 0..(numQueues - 1)
        /\ \A p \in DOMAIN processes :
               MLFQDispatches(p) =>
                   IF /\ Len(ganttChart') - Len(ganttChart) = timeQuantums[ServedLevel]
                      /\ processes'[p].remainingTime > 0
                   THEN processQueueLevel'[p] = Min(ServedLevel + 1, numQueues - 1)
                   ELSE processQueueLevel'[p] = MLFQTop.processQueueLevel[p]]_vars

\* C29: in a Multilevel Feedback Queue run with aging enabled, at every aging
\* check (an iteration whose currentTime is a multiple of agingThreshold) each
\* READY process's time-in-level counter is incremented by one, and when it
\* reaches agingThreshold the process's level decreases by one (never below 0)
\* and its counter is reset to 0, also for a process already at level 0.
C29_AgingCountsAndPromotes ==
    (/\ strategy = "MLFQ" /\ agingEnabled /\ pc = "loop"
     /\ currentTime % agingThreshold = 0) =>
        \A i \in Ready(admitArrivingProcesses(processes, currentTime)) :
            IF timeInQueue[i] + 1 >= agingThreshold
            THEN /\ MLFQTop.timeInQueue[i] = 0
                 /\ MLFQTop.processQueueLevel[i]
                        = IF processQueueLevel[i] > 0
                          THEN processQueueLevel[i] - 1 ELSE 0
            ELSE /\ MLFQTop.timeInQueue[i] = timeInQueue[i] + 1
                 /\ MLFQTop.processQueueLevel[i] = processQueueLevel[i]

\* C30: in a Multilevel Feedback Queue run every dispatch takes the head of
\* the lowest-numbered non-empty level queue and runs it for
\* min(quantum of that level, remainingTime); at the moment of a dispatch
\* from level L no READY process has a recorded level smaller than L.
C30_ServesLowestRecordedLevel ==
    [][\A p \in DOMAIN processes :
        MLFQDispatches(p) =>
            /\ \A l \in 0..(ServedLevel - 1) : MLFQTop.queues[l] = <<>>
            /\ MLFQTop.queues[ServedLevel] # <<>>
            /\ p = Head(MLFQTop.queues[ServedLevel])
            /\ Len(ganttChart') - Len(ganttChart)
                   = Min(timeQuantums[ServedLevel],
                         MLFQTop.processes[p].remainingTime)
            /\ \A i \in Ready(MLFQTop.processes) :
                   MLFQTop.processQueueLevel[i] >= ServedLevel]_vars

\* C31: a MultilevelFeedbackQueueScheduler constructed with N levels and no
\* setTimeQuantum call has default quanta that double from level to level:
\* quantum[i+1] = 2 * quantum[i] for every 0 <= i < N-1.
C31_DefaultQuantaDouble ==
    strategy = "MLFQ" =>
        \A i \in 0..(numQueues - 2) :
            DefaultTimeQuantums(numQueues)[i + 1]
                = 2 * DefaultTimeQuantums(numQueues)[i]

\* the places <<level, position>> at which process i stands in the level queues
QueueEntries(qs, i) ==
    {e \in UNION {{<<k, n>> : n \in DOMAIN qs[k]} : k \in DOMAIN qs} :
        qs[e[1]][e[2]] = i}

\* C32: in a Multilevel Feedback Queue run a process has at most one entry
\* across all level queues at any time, and that entry is in the queue of its
\* recorded level, also when aging changes the recorded level of a process
\* that is already queued.
C32_OneEntryAtRecordedLevel ==
    (strategy = "MLFQ" /\ pc # "init") =>
        \A i \in DOMAIN processes :
            /\ Cardinality(QueueEntries(queues, i)) <= 1
            /\ \A e \in QueueEntries(queues, i) : e[1] = processQueueLevel[i]

\* the part of a process record that is final once the process is TERMINATED
FinalRecord(p) ==
    <<p.state, p.completionTime, p.turnaroundTime, p.responseTime, p.waitingTime>>

\* C33: once a process is TERMINATED its record is immutable for the rest of
\* the run under every strategy: it is never dispatched again, its metrics are
\* finalized exactly once, and its state, completionTime, turnaroundTime,
\* responseTime and waitingTime never change afterwards.
C33_TerminatedIsImmutable ==
    [][(pc = "loop" /\ runCount' = runCount) =>
        \A i \in DOMAIN processes :
            processes[i].state = "TERMINATED" =>
                /\ FinalRecord(processes'[i]) = FinalRecord(processes[i])
                /\ processes'[i].remainingTime = 0
                /\ ~(Len(ganttChart') > Len(ganttChart) /\ Last(ganttChart') = i)
                /\ (strategy = "MLFQ" /\ ServedLevel # NoQueue) =>
                       Head(MLFQTop.queues[ServedLevel]) # i]_vars

\* the four legal transitions of the process state graph
LegalTransitions ==
    {<<"NEW", "READY">>, <<"READY", "RUNNING">>, <<"RUNNING", "READY">>,
     <<"RUNNING", "TERMINATED">>}

\* the states that can be reached from state s along legal transitions
LegallyReachable(s) ==
    LET one(S) == S \cup {t[2] : t \in {u \in LegalTransitions : u[1] \in S}}
    IN one(one(one(one({s}))))

\* the processes as they are when the iteration's dispatch takes place
ProcessesAtDispatch ==
    IF strategy = "RR" THEN RRTop.processes
    ELSE IF strategy = "MLQ" THEN MLQTop.processes
    ELSE IF strategy = "MLFQ" THEN MLFQTop.processes
    ELSE PrioTop

\* the process a queue-based strategy hands to contextSwitch in this
\* iteration, NoProcess if the iteration dispatches none
HandedToContextSwitch ==
    IF pc # "loop" THEN NoProcess
    ELSE IF strategy = "RR"
    THEN IF RRTop.readyQueue # <<>> THEN Head(RRTop.readyQueue) ELSE NoProcess
    ELSE IF strategy = "MLQ"
    THEN IF MLQHighestPriorityQueue(MLQTop.queues) # NoQueue
         THEN Head(MLQTop.queues[MLQHighestPriorityQueue(MLQTop.queues)])
         ELSE NoProcess
    ELSE IF strategy = "MLFQ"
    THEN IF ServedLevel # NoQueue THEN Head(MLFQTop.queues[ServedLevel])
         ELSE NoProcess
    ELSE NoProcess

\* C34: under every strategy every change of a process's state follows one of
\* the four legal transitions NEW->READY, READY->RUNNING, RUNNING->READY,
\* RUNNING->TERMINATED; the WAITING state is never entered and no process
\* leaves TERMINATED. Over one iteration of the scheduling loop: the state a
\* process ends in is reachable from the state it began in along legal
\* transitions, and the process set RUNNING by contextSwitch is READY (or
\* already RUNNING) at that moment.
C34_LegalStateTransitions ==
    [][(pc = "loop" /\ runCount' = runCount) =>
        /\ \A i \in DOMAIN processes :
               /\ processes'[i].state \in LegallyReachable(processes[i].state)
               /\ processes'[i].state # "WAITING"
        /\ HandedToContextSwitch # NoProcess =>
               ProcessesAtDispatch[HandedToContextSwitch].state
                   \in {"READY", "RUNNING"}]_vars

\* a queue that holds no process twice and only READY processes with work left
SoundReadyQueue(ps, q) ==
    /\ \A k, n \in DOMAIN q : q[k] = q[n] => k = n
    /\ \A k \in DOMAIN q : /\ ps[q[k]].state = "READY"
                           /\ ps[q[k]].remainingTime > 0

\* C35: in Round Robin the ready queue never holds the same process twice,
\* and every process in it is in state READY with remainingTime > 0 (between
\* iterations and after the enqueue loop at the top of an iteration).
C35_ReadyQueueSound ==
    strategy = "RR" =>
        /\ SoundReadyQueue(processes, readyQueue)
        /\ pc = "loop" => SoundReadyQueue(RRTop.processes, RRTop.readyQueue)

\* a preempted process stands in the queue behind another one
C35_Witness ==
    /\ strategy = "RR" /\ pc = "loop"
    /\ Len(readyQueue) >= 2
    /\ \E k \in DOMAIN readyQueue :
           /\ k > 1
           /\ processes[readyQueue[k]].remainingTime
                  < processes[readyQueue[k]].burstTime

\* the trace entries the step appends are entries of process i
RunsInStep(i) ==
    /\ Len(ganttChart') > Len(ganttChart)
    /\ Last(ganttChart') = i

\* C36: a process's startTime is written exactly once, at its first dispatch,
\* with the clock value after any context-switch overhead of that dispatch
\* has been added (the time at which its first unit begins); later dispatches
\* of the same process leave startTime unchanged, and startTime >= arrivalTime.
C36_StartTimeWrittenOnce ==
    [][(pc = "loop" /\ runCount' = runCount) =>
        \A i \in DOMAIN processes :
            /\ processes[i].startTime # -1 =>
                   processes'[i].startTime = processes[i].startTime
            /\ (processes[i].startTime = -1 /\ ~RunsInStep(i)) =>
                   processes'[i].startTime = -1
            /\ (processes[i].startTime = -1 /\ RunsInStep(i)) =>
                   /\ processes'[i].startTime
                          = currentTime' - (Len(ganttChart') - Len(ganttChart))
                   /\ processes'[i].startTime >= currentTime
                   /\ processes'[i].startTime >= processes[i].arrivalTime]_vars

\* the value admitArrivingProcesses returns: one "admitted++" for every
\* process the loop moves to READY
Admitted(ps, t) ==
    Cardinality({i \in DOMAIN ps :
                    ps[i].state = "NEW" /\ ps[i].arrivalTime <= t})

\* the processes whose state admitArrivingProcesses changes
MovedByAdmission(ps, t) ==
    {i \in DOMAIN ps : admitArrivingProcesses(ps, t)[i] # ps[i]}

\* C37: admitArrivingProcesses moves exactly the NEW processes with
\* arrivalTime <= currentTime to READY, returns their count and changes no
\* other process; hence at every point of a run a process whose state is not
\* NEW has arrivalTime <= currentTime.
C37_AdmissionExact ==
    /\ \A i \in DOMAIN processes :
           LET after == admitArrivingProcesses(processes, currentTime)[i]
           IN IF processes[i].state = "NEW"
                 /\ processes[i].arrivalTime <= currentTime
              THEN after = [processes[i] EXCEPT !.state = "READY"]
              ELSE after = processes[i]
    /\ Admitted(processes, currentTime)
           = Cardinality(MovedByAdmission(processes, currentTime))
    /\ \A i \in DOMAIN processes :
           processes[i].state # "NEW" =>
               processes[i].arrivalTime <= currentTime

\* the largest int, the start value of minArrivalTime
INT_MAX == 2147483647

\* the sum of f over the indices in S
RECURSIVE Total(_, _)
Total(f, S) ==
    IF S = {} THEN 0
    ELSE LET x == CHOOSE y \in S : TRUE
         IN f[x] + Total(f, S \ {x})

\* a quotient of two ints kept as <<numerator, denominator>>; 0 is <<0, 1>>
Average(total, count) == IF count > 0 THEN <<total, count>> ELSE <<0, 1>>

\* Scheduler::calculateMetrics() on the processes of the scheduler
SchedulingMetrics(ps) ==
    LET terminated == {i \in DOMAIN ps : ps[i].state = "TERMINATED"}
        completedProcesses == Cardinality(terminated)
        totalWaiting == Total([i \in DOMAIN ps |-> ps[i].waitingTime], terminated)
        totalTurnaround ==
            Total([i \in DOMAIN ps |-> ps[i].turnaroundTime], terminated)
        totalResponse == Total([i \in DOMAIN ps |-> ps[i].responseTime], terminated)
        maxCompletionTime ==
            SetMax({0} \cup {ps[i].completionTime : i \in terminated})
        minArrivalTime ==
            SetMin({INT_MAX} \cup {ps[i].arrivalTime : i \in terminated})
        totalBurstTime == Total([i \in DOMAIN ps |-> ps[i].burstTime], terminated)
    IN [averageWaitingTime |-> Average(totalWaiting, completedProcesses),
        averageTurnaroundTime |-> Average(totalTurnaround, completedProcesses),
        averageResponseTime |-> Average(totalResponse, completedProcesses),
        completedProcesses |-> completedProcesses,
        totalBurstTime |-> totalBurstTime,
        totalTime |-> maxCompletionTime - minArrivalTime]

\* C38: calculateMetrics() returns a totalTime >= 0 and a sum of terminated
\* burst times <= totalTime (CPU utilization at most 100%) in every scheduler
\* state, including when no process is TERMINATED (before a run, or after a
\* run that terminated no process), where all averages and totalTime are 0.
C38_MetricsWithinRange ==
    LET metrics == SchedulingMetrics(processes)
    IN /\ metrics.totalTime >= 0
       /\ metrics.totalBurstTime <= metrics.totalTime
       /\ metrics.completedProcesses = 0 =>
              /\ metrics.averageWaitingTime[1] = 0
              /\ metrics.averageTurnaroundTime[1] = 0
              /\ metrics.averageResponseTime[1] = 0
              /\ metrics.totalTime = 0

\* the run is one in which Priority aging is at work
AgingAtWork == strategy = "PRIO" /\ agingEnabled

\* C39: a process's priority value is modified only by Priority aging: during
\* Round Robin, Multilevel Queue and Multilevel Feedback Queue runs, and
\* during Priority runs with aging disabled, every process's priority is
\* unchanged; with aging enabled the priority value never increases and never
\* drops below 0.
C39_PriorityOnlyAged ==
    [][\A i \in DOMAIN processes :
        IF AgingAtWork
        THEN /\ processes'[i].priority <= processes[i].priority
             /\ processes'[i].priority >= 0
             /\ processes[i].priority <= added[i].priority
        ELSE /\ processes'[i].priority = processes[i].priority
             /\ processes[i].priority = added[i].priority]_vars

\* aging has lowered a priority value to 0, and the process was READY at a
\* later aging check
C39_Witness ==
    /\ AgingAtWork /\ pc = "loop"
    /\ \E i \in DOMAIN processes :
           /\ added[i].priority > 0
           /\ processes[i].priority = 0
           /\ processes[i].state = "READY"
           /\ currentTime % agingInterval = 0
           /\ currentTime - processes[i].lastScheduledTime >= agingInterval

\* the processes in state RUNNING
Running(ps) == {i \in DOMAIN ps : ps[i].state = "RUNNING"}

\* C40: under every strategy at most one process is in state RUNNING at any
\* point of a run, and every trace entry appended for a time unit is labelled
\* with the process that is RUNNING at that moment: while the units of process
\* i are appended no other process is RUNNING, the running process of a
\* Priority run is RUNNING, and no IDLE entry is appended while a process is
\* RUNNING.
C40_TraceLabelsRunning ==
    [][/\ Cardinality(Running(processes)) <= 1
       /\ (pc \in {"loop", "done"} /\ runningProcess # NoProcess) =>
              Running(processes) = {runningProcess}
       /\ pc = "loop" =>
              /\ \A i \in DOMAIN processes :
                     RunsInStep(i) => Running(processes') \subseteq {i}
              /\ (Len(ganttChart') > Len(ganttChart) /\ Last(ganttChart') = IDLE) =>
                     Running(processes') = {}]_vars

====
